---------------------------- MODULE Spec2Model ----------------------------
(***************************************************************************)
(* Model of the chat request handlers of DeepWoods.in.                     *)
(*                                                                         *)
(* src/index.js and src/unnamed/part_001 each hold several server files    *)
(* one after the other.  The handler variants modelled here are            *)
(*   "V1"  src/index.js lines 41-160        POST /api/chat                 *)
(*   "V2"  src/index.js lines 211-358       POST /api/chat (second file)   *)
(*   "V3"  src/unnamed/part_001 lines 122-193  POST /api/chat, searches    *)
(*         all documents                                                   *)
(*   "V4"  src/index.js lines 426-465       POST /chat                     *)
(* One server variant runs per behaviour; it serves the requests 1..MaxReqs*)
(* and owns one process-wide conversation memory.                          *)
(*                                                                         *)
(* Two further parts have specifications of their own: the ingestion       *)
(* script src/unnamed/part_000 (SpecIngest), and the handlers that take    *)
(* the PDF from the request body, "V5" src/api/chat.js, "V6"               *)
(* src/unnamed/part_002 and "V7" src/unnamed/part_001 lines 28-81          *)
(* (SpecPdfChat).                                                          *)
(*                                                                         *)
(* Texts are sequences of tokens (a token is a string): concatenation of   *)
(* texts is \o, the empty text is << >>.  "UNDEFINED" stands for a body    *)
(* field that is absent.                                                   *)
(***************************************************************************)
EXTENDS Naturals, Sequences, FiniteSets, TLC

\* ----------------------------------------------------------------- bounds
MaxReqs == 2
MaxChunks == 1
MaxItems == 1

\* ------------------------------------------------------------ value domains
Reqs == 1..MaxReqs
Variants == {"V1", "V2", "V3", "V4"}
Undefined == "UNDEFINED"
Questions == {"q1"}
QuestionInputs == Questions \cup {Undefined, ""}
PdfUrlInputs == {Undefined, "general_discussion", "doc1"}
Chunks == {"c1"}
Items == {"i1"}
ErrMsgs == {"", "m1"}
LLMTexts == {<< >>, <<"a1">>}

SeqsUpTo(S, n) == UNION {[1..k -> S] : k \in 0..n}

\* A collaborator call either returns a value or throws an error with a message.
Returned(v) == [ok |-> TRUE, val |-> v, msg |-> ""]
Thrown(m) == [ok |-> FALSE, val |-> << >>, msg |-> m]

\* ------------------------------------------------------------ JS helpers
\* !x of JavaScript for the strings a body field can hold.
Falsy(x) == x \in {Undefined, ""}
Truthy(x) == ~Falsy(x)

IsPrefix(p, s) == Len(p) <= Len(s) /\ SubSeq(s, 1, Len(p)) = p
Contains(s, tok) == \E i \in 1..Len(s) : s[i] = tok


\* ------------------------------------------------------------ fixed texts
MissingQuestion == <<"Missing question">>
MessageRequired == <<"Message is required">>
GenericError == <<"An error occurred.">>
VectorSearchError == <<"Vector search error">>
InternalServerError == <<"Internal server error">>
NoAnswerDocsOrNet == <<"I could not find a relevant answer in your documents or on the internet.">>
NoAnswerNet == <<"I could not find a relevant answer on the internet.">>
NoAnswer == <<"No answer">>
NoContext == <<"No relevant context found.">>

\* const warning, per file.
warning(v) ==
    IF v = "V1" THEN <<"Note: No relevant docs found, so I searched the web.">>
    ELSE <<"Note: I couldn't find an answer in your documents, so the response below was generated based on an internet search.">>

\* --------------------------------------------------- collaborator outcomes
ChunkLists == SeqsUpTo(Chunks, MaxChunks)
RetrieverOutcomes == {Returned(d) : d \in ChunkLists} \cup {Thrown(m) : m \in ErrMsgs}

\* One search result of the web search API.
ItemRecs == {[title |-> "t_" \o i, link |-> "l_" \o i, snippet |-> "s_" \o i] : i \in Items}
\* searchResponse.data: the API leaves `items` out when nothing matched.
WebData == {[hasItems |-> FALSE, items |-> << >>]}
             \cup {[hasItems |-> TRUE, items |-> s] : s \in SeqsUpTo(ItemRecs, MaxItems)}
WebOutcomes == {Returned(d) : d \in WebData} \cup {Thrown(m) : m \in ErrMsgs}

LLMOutcomes == {Returned(t) : t \in LLMTexts} \cup {Thrown(m) : m \in ErrMsgs}

\* Rows of the documents table as match_documents returns them (POST /chat).
Rows == {[content |-> "c1", source |-> "s1"], [content |-> Undefined, source |-> Undefined]}
\* supabase.rpc resolves to { data, error }; data may be null.
RpcOutcomes == {[error |-> TRUE, hasData |-> FALSE, data |-> << >>],
                [error |-> FALSE, hasData |-> FALSE, data |-> << >>]}
                 \cup {[error |-> FALSE, hasData |-> TRUE, data |-> d] : d \in SeqsUpTo(Rows, MaxChunks)}
EmbedOutcomes == {Returned(<<"embedding">>)} \cup {Thrown(m) : m \in ErrMsgs}

\* ------------------------------------------------------- pure code pieces
\* if (!question)  /  if (!message)
RejectsQuestionUndefinedOnly(q) == q = Undefined
RejectsQuestion(q) == Falsy(q)

\* if (pdfUrl && pdfUrl !== 'general_discussion')
DocumentScope(u) == Truthy(u) /\ u # "general_discussion"

\* if (retrievedDocs && retrievedDocs.length > 0)
HasDocs(docs) == Len(docs) > 0

\* searchResponse.data.items || []
searchResults(data) == IF data.hasItems THEN data.items ELSE << >>

\* searchResults.forEach(item => { searchContext += `Title: ...` })
RECURSIVE searchContext(_)
searchContext(items) ==
    IF items = << >> THEN << >>
    ELSE <<"Title: ", Head(items).title, "\nLink: ", Head(items).link,
           "\nSnippet: ", Head(items).snippet, "\n\n">> \o searchContext(Tail(items))

\* if (searchContext)
HasSearchContextAlways(ctx) == TRUE
HasSearchContext(ctx) == ctx # << >>

\* createStuffDocumentsChain: the {context} of the prompt is the page contents
\* of the documents joined by a blank line.
RECURSIVE formatDocuments(_)
formatDocuments(docs) ==
    IF docs = << >> THEN << >>
    ELSE IF Len(docs) = 1 THEN <<Head(docs)>>
    ELSE <<Head(docs), "\n\n">> \o formatDocuments(Tail(docs))

\* Answer of the fallback branch: V1 and V2 put the warning first, V3 does not.
FallbackAnswerBare(v, content) == content
FallbackAnswer(v, content) ==
    IF v \in {"V1", "V2"} THEN warning(v) \o <<"\n\n">> \o content ELSE content

\* Fixed answer when the web search found nothing.
NoResultsAnswer(fallback) == IF fallback THEN NoAnswerDocsOrNet ELSE NoAnswerNet

\* The error text of the catch block of each file.
CatchBody(v, m) ==
    CASE v \in {"V1", "V2"} -> GenericError
      [] v = "V3" -> IF m # "" THEN <<m>> ELSE GenericError
      [] OTHER -> InternalServerError

\* searchDocuments: an error of the rpc is logged and an empty list returned.
searchDocuments(out) == IF out.error THEN << >> ELSE IF out.hasData THEN out.data ELSE << >>

\* buildContext(docs)
RECURSIVE buildDocs(_, _)
buildDocs(docs, i) ==
    IF docs = << >> THEN << >>
    ELSE LET d == Head(docs)
             one == <<"Document ", ToString(i), ":\n",
                      IF Truthy(d.content) THEN d.content ELSE "",
                      "\n(Source: ",
                      IF Truthy(d.source) THEN d.source ELSE "unknown", ")">>
         IN IF Len(docs) = 1 THEN one ELSE one \o <<"\n\n">> \o buildDocs(Tail(docs), i + 1)
buildContext(docs) == IF Len(docs) = 0 THEN NoContext ELSE buildDocs(docs, 1)

\* results.map((r) => r.metadata?.source || "unknown")
sources(results) == [i \in 1..Len(results) |->
                       IF Truthy(results[i].source) THEN results[i].source ELSE "unknown"]

\* response?.text || "No answer"
AnswerOrDefault(text) == IF text = << >> THEN NoAnswer ELSE text

\* memory.saveContext({ question }, { answer }): one turn is appended.
SaveContextReplacing(mem, q, a) == <<[question |-> q, answer |-> a]>>
saveContext(mem, q, a) == Append(mem, [question |-> q, answer |-> a])

\* The HTTP responses.
Response(status, fld, body, srcs) == [status |-> status, field |-> fld, body |-> body, sources |-> srcs]
ErrorResponseAsAnswer(status, body) == Response(status, "answer", body, << >>)
ErrorResponse(status, body) == Response(status, "error", body, << >>)
AnswerResponse(body) == Response(200, "answer", body, << >>)

\* What the language model is given.
ModelInput(q, ctx, hist, withHist) ==
    [question |-> q, context |-> ctx, chat_history |-> hist, withHistory |-> withHist]
\* Document path: question, context and the loaded conversation history.
DocumentPromptNoHistory(q, ctx, hist) == ModelInput(q, ctx, << >>, FALSE)
DocumentPrompt(q, ctx, hist) == ModelInput(q, ctx, hist, TRUE)
\* Web-search paths: question and search context only.
SearchPrompt(q, ctx) == ModelInput(q, ctx, << >>, FALSE)

\* A deterministic language-model stub that repeats everything it is given.
RECURSIVE FlattenHistory(_)
FlattenHistory(hist) ==
    IF hist = << >> THEN << >>
    ELSE <<"Human: ", Head(hist).question, "AI: ">> \o Head(hist).answer \o FlattenHistory(Tail(hist))
Echo(in) ==
    <<"echo(", in.question, "|">> \o in.context
      \o (IF in.withHistory THEN <<"|history: ">> \o FlattenHistory(in.chat_history) ELSE << >>)
      \o <<")">>

\* ------------------------------------------------------------------ state
VARIABLES
    variant,       \* which server file is running
    memory,        \* const memory = new BufferMemory(...): the turns saved so far
    h,             \* h[r]: the handler invocation of request r (its locals and position)
    calls,         \* calls[r]: the collaborator calls request r has made, in order
    resp,          \* resp[r]: the HTTP responses sent for request r, in order
    stub,          \* the collaborators: free, or deterministic functions of their inputs
    startedAfter,  \* startedAfter[r]: the requests already answered when r arrived
                   \* (recorded when the collaborators are deterministic stubs)
    ing,           \* the ingestion script: the locals and position of ingestDocuments,
                   \* what it has written to the console
    documents,     \* the rows of the 'documents' table, in the order they were inserted
    site           \* site[i]: the text of the PDF that pdfUrls[i] serves

vars == <<variant, memory, h, calls, resp, stub, startedAfter, ing, documents, site>>
ingestion == <<ing, documents, site>>

\* The ingestion script before it is started.
IngOff == [pc |-> "off", rerun |-> FALSE, i |-> 0, rawText |-> << >>, splits |-> << >>,
           j |-> 0, embedding |-> << >>, issued |-> 0, errors |-> 0, console |-> << >>]

\* The locals of one handler invocation before the request has arrived.
Frame0 == [pc |-> "idle", question |-> Undefined, pdfUrl |-> Undefined,
           retrievedDocs |-> << >>, context |-> << >>, chat_history |-> << >>,
           answer |-> << >>, results |-> << >>]

\* Collaborators that may answer anything, and differently each time.
FreeStub == [det |-> FALSE,
             retriever |-> [q \in Questions |-> Returned(<< >>)],
             web |-> [q \in Questions |-> Returned([hasItems |-> FALSE, items |-> << >>])]]
\* Collaborators that are functions of the question they are asked.
DetStubs == {[det |-> TRUE, retriever |-> f, web |-> g] :
               f \in [Questions -> RetrieverOutcomes], g \in [Questions -> WebOutcomes]}

RetrieverReplies(q) == IF stub.det THEN {stub.retriever[q]} ELSE RetrieverOutcomes
WebReplies(q) == IF stub.det THEN {stub.web[q]} ELSE WebOutcomes
ModelReplies(in) == IF stub.det THEN {Returned(Echo(in))} ELSE LLMOutcomes

InitWith(stubs) ==
    /\ variant \in Variants
    /\ memory = << >>
    /\ h = [r \in Reqs |-> Frame0]
    /\ calls = [r \in Reqs |-> << >>]
    /\ resp = [r \in Reqs |-> << >>]
    /\ stub \in stubs
    /\ startedAfter = [r \in Reqs |-> {}]
    /\ ing = IngOff
    /\ documents = << >>
    /\ site = << >>

Init == InitWith({FreeStub})
InitDet == InitWith(DetStubs)

\* One entry of the call log: who was called, whether the call returned, and
\* whether what it returned was empty (no chunk, no search result, no text).
Call(who, reply, val) == [who |-> who, ok |-> reply.ok, empty |-> reply.ok /\ Len(val) = 0]
Log(r, c) == calls' = [calls EXCEPT ![r] = Append(@, c)]
Send(r, response) == resp' = [resp EXCEPT ![r] = Append(@, response)]
\* The handler returns: its locals are gone, the request body stays on record.
Done(r) == h' = [h EXCEPT ![r] = [Frame0 EXCEPT !.pc = "done", !.question = h[r].question,
                                                !.pdfUrl = h[r].pdfUrl]]

\* catch (error) { res.status(500).json({ error: ... }) }
Catch(r, m) == Send(r, ErrorResponse(500, CatchBody(variant, m))) /\ Done(r)

\* --------------------------------------------------------------- actions
\* The request arrives: the body is read and validated, and the branch chosen.
Receive(r) ==
    /\ h[r].pc = "idle"
    /\ \A s \in Reqs : s < r => h[s].pc # "idle"
    /\ \E q \in QuestionInputs, u \in (IF variant = "V4" THEN {Undefined} ELSE PdfUrlInputs) :
         /\ startedAfter' = IF stub.det
                            THEN [startedAfter EXCEPT ![r] = {s \in Reqs : h[s].pc = "done"}]
                            ELSE startedAfter
         /\ IF RejectsQuestion(q)
            THEN /\ Send(r, ErrorResponse(400, IF variant = "V4" THEN MessageRequired
                                                                ELSE MissingQuestion))
                 /\ h' = [h EXCEPT ![r] = [Frame0 EXCEPT !.pc = "done", !.question = q, !.pdfUrl = u]]
            ELSE /\ resp' = resp
                 /\ h' = [h EXCEPT ![r] = [@ EXCEPT !.question = q, !.pdfUrl = u,
                            !.pc = CASE variant = "V4" -> "embedQuery"
                                     [] variant = "V3" -> "retrieve"
                                     [] OTHER -> IF DocumentScope(u) THEN "retrieve"
                                                                     ELSE "searchGeneral"]]
    /\ UNCHANGED <<ingestion, variant, memory, calls, stub>>

\* const retrievedDocs = await retriever.getRelevantDocuments(question)
Retrieve(r) ==
    /\ h[r].pc = "retrieve"
    /\ \E reply \in RetrieverReplies(h[r].question) :
         /\ Log(r, Call("Retriever", reply, reply.val))
         /\ IF ~reply.ok
            THEN IF variant = "V2"
                 THEN Send(r, ErrorResponse(500, VectorSearchError)) /\ Done(r)
                 ELSE Catch(r, reply.msg)
            ELSE /\ resp' = resp
                 /\ h' = [h EXCEPT ![r] = [@ EXCEPT !.retrievedDocs = reply.val,
                            !.pc = IF HasDocs(reply.val) THEN "loadMemory" ELSE "searchFallback"]]
    /\ UNCHANGED <<ingestion, variant, memory, stub, startedAfter>>

\* A handler that would wait for the requests between their load and their save.
LoadMemoryLocked(r) ==
    /\ h[r].pc = "loadMemory"
    /\ \A o \in Reqs \ {r} : h[o].pc \notin {"chainRetrieve", "chainModel", "saveContext"}
    /\ h' = [h EXCEPT ![r] = [@ EXCEPT !.chat_history = memory, !.pc = "chainRetrieve"]]
    /\ UNCHANGED <<ingestion, variant, memory, calls, resp, stub, startedAfter>>

\* await memory.loadMemoryVariables({}): the turns saved so far are read here,
\* before the chain is invoked.
LoadMemory(r) ==
    /\ h[r].pc = "loadMemory"
    /\ h' = [h EXCEPT ![r] = [@ EXCEPT !.chat_history = memory, !.pc = "chainRetrieve"]]
    /\ UNCHANGED <<ingestion, variant, memory, calls, resp, stub, startedAfter>>

\* retrievalChain.invoke, first half: the chain asks its retriever for the
\* documents of `input`; what it gets becomes the {context}.
ChainRetrieve(r) ==
    /\ h[r].pc = "chainRetrieve"
    /\ \E reply \in RetrieverReplies(h[r].question) :
         /\ Log(r, Call("Retriever", reply, reply.val))
         /\ IF ~reply.ok
            THEN Catch(r, reply.msg)
            ELSE /\ resp' = resp
                 /\ h' = [h EXCEPT ![r] = [@ EXCEPT !.context = formatDocuments(reply.val),
                                                    !.pc = "chainModel"]]
    /\ UNCHANGED <<ingestion, variant, memory, stub, startedAfter>>

\* retrievalChain.invoke, second half: the documents chain calls the model.
ChainModel(r) ==
    /\ h[r].pc = "chainModel"
    /\ LET in == DocumentPrompt(h[r].question, h[r].context, h[r].chat_history) IN
       \E reply \in ModelReplies(in) :
         /\ Log(r, Call("LanguageModel", reply, reply.val))
         /\ IF ~reply.ok
            THEN Catch(r, reply.msg)
            ELSE /\ resp' = resp
                 /\ h' = [h EXCEPT ![r] = [@ EXCEPT !.answer = reply.val, !.pc = "saveContext"]]
    /\ UNCHANGED <<ingestion, variant, memory, stub, startedAfter>>

\* A save that would write back the history the request had loaded, plus its turn.
SaveContextFromLoaded(r) ==
    /\ h[r].pc = "saveContext"
    /\ memory' = saveContext(h[r].chat_history, h[r].question, h[r].answer)
    /\ Send(r, AnswerResponse(h[r].answer))
    /\ Done(r)
    /\ UNCHANGED <<ingestion, variant, calls, stub, startedAfter>>

\* await memory.saveContext(...); return res.status(200).json({ answer: result.answer })
SaveContext(r) ==
    /\ h[r].pc = "saveContext"
    /\ memory' = saveContext(memory, h[r].question, h[r].answer)
    /\ Send(r, AnswerResponse(h[r].answer))
    /\ Done(r)
    /\ UNCHANGED <<ingestion, variant, calls, stub, startedAfter>>

\* const searchResponse = await axios.get(searchUrl), in the fallback branch and
\* in general-discussion mode; with no search context the fixed answer is sent.
Search(r) ==
    /\ h[r].pc \in {"searchFallback", "searchGeneral"}
    /\ LET fallback == h[r].pc = "searchFallback" IN
       \E reply \in WebReplies(h[r].question) :
         /\ Log(r, Call("WebSearchClient", reply, reply.val.items))
         /\ IF ~reply.ok
            THEN Catch(r, reply.msg)
            ELSE LET ctx == searchContext(searchResults(reply.val)) IN
                 IF HasSearchContext(ctx)
                 THEN /\ resp' = resp
                      /\ h' = [h EXCEPT ![r] = [@ EXCEPT !.context = ctx,
                                 !.pc = IF fallback THEN "modelFallback" ELSE "modelGeneral"]]
                 ELSE /\ Send(r, AnswerResponse(NoResultsAnswer(fallback)))
                      /\ Done(r)
    /\ UNCHANGED <<ingestion, variant, memory, stub, startedAfter>>

\* const result = await chain.invoke({ context: searchContext, question })
\* (model.invoke in V2 and V3), then the answer is sent.  In the general branch
\* of V2 the model is invoked a second time before the answer is sent.
SearchModel(r) ==
    /\ h[r].pc \in {"modelFallback", "modelGeneral"}
    /\ LET fallback == h[r].pc = "modelFallback"
           in == SearchPrompt(h[r].question, h[r].context) IN
       \E reply \in ModelReplies(in) :
         /\ Log(r, Call("LanguageModel", reply, reply.val))
         /\ IF ~reply.ok
            THEN Catch(r, reply.msg)
            ELSE IF fallback
                 THEN Send(r, AnswerResponse(FallbackAnswer(variant, reply.val))) /\ Done(r)
                 ELSE IF variant = "V2"
                      THEN /\ resp' = resp
                           /\ h' = [h EXCEPT ![r] = [@ EXCEPT !.answer = reply.val,
                                                              !.pc = "modelAgain"]]
                      ELSE Send(r, AnswerResponse(reply.val)) /\ Done(r)
    /\ UNCHANGED <<ingestion, variant, memory, stub, startedAfter>>

\* V2, general branch: the second `const result = await model.invoke(promptValue)`
\* (lines 339 and 343 both declare `result`; the statements are read in order,
\* the second call's result being the one that is sent).
SearchModelAgain(r) ==
    /\ h[r].pc = "modelAgain"
    /\ LET in == SearchPrompt(h[r].question, h[r].context) IN
       \E reply \in ModelReplies(in) :
         /\ Log(r, Call("LanguageModel", reply, reply.val))
         /\ IF ~reply.ok
            THEN Catch(r, reply.msg)
            ELSE Send(r, AnswerResponse(reply.val)) /\ Done(r)
    /\ UNCHANGED <<ingestion, variant, memory, stub, startedAfter>>

\* POST /chat: const embedding = await embeddings.embedQuery(message)
EmbedQuery(r) ==
    /\ h[r].pc = "embedQuery"
    /\ \E reply \in EmbedOutcomes :
         /\ Log(r, Call("Embeddings", reply, reply.val))
         /\ IF ~reply.ok
            THEN Catch(r, reply.msg)
            ELSE resp' = resp /\ h' = [h EXCEPT ![r].pc = "searchDocuments"]
    /\ UNCHANGED <<ingestion, variant, memory, stub, startedAfter>>

\* POST /chat: const results = await searchDocuments(embedding, 5, {});
\* const context = buildContext(results)
SearchDocuments(r) ==
    /\ h[r].pc = "searchDocuments"
    /\ \E out \in RpcOutcomes :
         /\ Log(r, Call("VectorStore", [ok |-> ~out.error], out.data))
         /\ h' = [h EXCEPT ![r] = [@ EXCEPT !.results = searchDocuments(out),
                                            !.context = buildContext(searchDocuments(out)),
                                            !.pc = "llmCall"]]
    /\ UNCHANGED <<ingestion, variant, memory, resp, stub, startedAfter>>

\* POST /chat: const response = await llm.call([...]); res.json({ answer, sources })
LlmCall(r) ==
    /\ h[r].pc = "llmCall"
    /\ LET in == SearchPrompt(h[r].question, h[r].context) IN
       \E reply \in ModelReplies(in) :
         /\ Log(r, Call("LanguageModel", reply, reply.val))
         /\ IF ~reply.ok
            THEN Catch(r, reply.msg)
            ELSE /\ Send(r, Response(200, "answer", AnswerOrDefault(reply.val),
                                     sources(h[r].results)))
                 /\ Done(r)
    /\ UNCHANGED <<ingestion, variant, memory, stub, startedAfter>>

\* The steps a handler invocation takes once its request has arrived.
Step(r) ==
    \/ Retrieve(r)
    \/ LoadMemory(r)
    \/ ChainRetrieve(r)
    \/ ChainModel(r)
    \/ SaveContext(r)
    \/ Search(r)
    \/ SearchModel(r)
    \/ SearchModelAgain(r)
    \/ EmbedQuery(r)
    \/ SearchDocuments(r)
    \/ LlmCall(r)

Next == \E r \in Reqs : Receive(r) \/ Step(r)

Spec == Init /\ [][Next]_vars
\* The same server against deterministic collaborator stubs.
SpecDet == InitDet /\ [][Next]_vars

\* ============================================================= ingestion
\* src/unnamed/part_000: the script that fills the 'documents' table.
MaxPdfs == 2      \* entries of pdfUrls that are taken
MaxSplits == 2    \* characters in the longest text a PDF holds after cleaning
MaxErrors == 2    \* failures (exceptions, insert errors) injected over the runs

\* A text is a sequence of characters.  Null is the character U+0000;
\* EscapedNull is the six characters backslash, u, 0, 0, 0, 0.
Null == "U+0000"
EscapedNull == <<"\\", "u", "0", "0", "0", "0">>
Plain(n) == [k \in 1..n |-> "a"]
\* The texts a PDF may hold: plain ones, one that holds a null character, and
\* one that holds the escaped spelling of it.
PdfTexts == {Plain(n) : n \in 0..MaxSplits}
              \cup {[k \in 1..MaxSplits |-> IF k = 1 THEN Null ELSE "a"], EscapedNull \o <<"a">>}
pdfUrls == [i \in 1..MaxPdfs |-> i]

\* Console lines.
ProcessingPdf(url) == <<"Processing PDF from URL: ", url>>
InsertError == <<"Error inserting data:">>
IngestedChunk(url) == <<"Successfully ingested a document chunk from ", url>>
IngestionComplete == <<"Document ingestion complete.">>
IngestionError == <<"An error occurred during ingestion:">>

\* rawText.replace(/\\u0000/g, ''): the pattern is an escaped backslash followed
\* by the characters u0000, so every occurrence of these six characters is
\* removed, left to right; all other characters are kept.
RECURSIVE cleanText(_)
cleanText(rawText) ==
    IF rawText = << >> THEN << >>
    ELSE IF IsPrefix(EscapedNull, rawText)
         THEN cleanText(SubSeq(rawText, Len(EscapedNull) + 1, Len(rawText)))
         ELSE <<Head(rawText)>> \o cleanText(Tail(rawText))

\* textSplitter.createDocuments([cleanText]): the library cuts the text into
\* pieces, each a stretch of the text; here, one piece per character.
createDocuments(text) == [k \in 1..Len(text) |-> <<text[k]>>]

\* embeddings.embedDocuments([content]): one vector per content.
embedDocuments(content) == <<<<"embedding of", content>>>>

\* An identifier that repeats.
uuidFixed(issued) == 1
\* uuidv4(): an identifier never issued before.
uuidv4(issued) == issued + 1

\* The locals of ingestDocuments are gone when it returns.
Returning(st) == [IngOff EXCEPT !.pc = "ended", !.rerun = st.rerun, !.issued = st.issued,
                                !.errors = st.errors, !.console = st.console]

\* An exception that would only skip the document it was thrown in.
catchSkippingDocument(st) ==
    IF st.i >= 1 /\ st.i < MaxPdfs
    THEN [st EXCEPT !.i = @ + 1, !.pc = "fetch", !.rawText = << >>, !.splits = << >>,
                    !.j = 0, !.embedding = << >>, !.errors = @ + 1]
    ELSE Returning([st EXCEPT !.errors = @ + 1,
                              !.console = Append(@, IngestionComplete)])
\* An exception anywhere in the try block: catch (error) { console.error(...) },
\* and the function returns.
catch(st) == Returning([st EXCEPT !.errors = @ + 1,
                                  !.console = Append(@, IngestionError)])

\* The end of the outer loop body: the next PDF, or the completion message.
nextPdf(st) ==
    IF st.i < MaxPdfs
    THEN [st EXCEPT !.i = @ + 1, !.pc = "fetch", !.rawText = << >>, !.splits = << >>,
                    !.j = 0, !.embedding = << >>]
    ELSE Returning([st EXCEPT !.console = Append(@, IngestionComplete)])
\* The end of the inner loop body: the next split, or the end of the document.
nextSplit(st) ==
    IF st.j < Len(st.splits)
    THEN [st EXCEPT !.j = @ + 1, !.embedding = << >>, !.pc = "embed"]
    ELSE nextPdf(st)

\* An insert error that would end the run as an exception does.
afterInsertAborting(st, ok) ==
    IF ok THEN nextSplit([st EXCEPT !.console = Append(@, IngestedChunk(pdfUrls[st.i]))])
    ELSE catch([st EXCEPT !.errors = @ - 1])
\* if (error) console.error(...) else console.log(...), and the loop goes on.
afterInsert(st, ok) ==
    nextSplit([st EXCEPT !.console = Append(@, IF ok THEN IngestedChunk(pdfUrls[st.i])
                                                     ELSE InsertError)])

\* Whether one more failure may be injected.
MayFail == ing.errors < MaxErrors
Outcomes == IF MayFail THEN BOOLEAN ELSE {TRUE}

\* ingestDocuments(): the script is run, a first and a second time.
ingestDocuments ==
    /\ ing.pc = "off" \/ (ing.pc = "ended" /\ ~ing.rerun)
    /\ ing' = [ing EXCEPT !.pc = "createClient", !.rerun = (ing.pc = "ended"), !.console = << >>]
    /\ UNCHANGED <<variant, memory, h, calls, resp, stub, startedAfter, documents, site>>

\* createClient(...) and new GoogleGenerativeAIEmbeddings(...), inside the try.
CreateClients ==
    /\ ing.pc = "createClient"
    /\ \E ok \in Outcomes :
         ing' = IF ok THEN [ing EXCEPT !.pc = "fetch", !.i = 1] ELSE catch(ing)
    /\ UNCHANGED <<variant, memory, h, calls, resp, stub, startedAfter, documents, site>>

\* for (const pdfUrl of pdfUrls): await fetch(pdfUrl), await arrayBuffer().
FetchPdf ==
    /\ ing.pc = "fetch"
    /\ \E ok \in Outcomes :
         LET st == [ing EXCEPT !.console = Append(@, ProcessingPdf(pdfUrls[ing.i]))]
         IN ing' = IF ok THEN [st EXCEPT !.pc = "parse"] ELSE catch(st)
    /\ UNCHANGED <<variant, memory, h, calls, resp, stub, startedAfter, documents, site>>

\* await getDocument(...).promise and the page loop: rawText is the text of the PDF.
ParsePdf ==
    /\ ing.pc = "parse"
    /\ \E ok \in Outcomes :
         ing' = IF ok THEN [ing EXCEPT !.pc = "split", !.rawText = site[ing.i]] ELSE catch(ing)
    /\ UNCHANGED <<variant, memory, h, calls, resp, stub, startedAfter, documents, site>>

\* cleanText = rawText.replace(...); splits = await textSplitter.createDocuments([cleanText]).
SplitText ==
    /\ ing.pc = "split"
    /\ \E ok \in Outcomes :
         ing' = IF ok THEN nextSplit([ing EXCEPT !.splits = createDocuments(cleanText(ing.rawText))])
                ELSE catch(ing)
    /\ UNCHANGED <<variant, memory, h, calls, resp, stub, startedAfter, documents, site>>

\* for (const split of splits): embedding = await embeddings.embedDocuments([split.pageContent]).
EmbedSplit ==
    /\ ing.pc = "embed"
    /\ \E ok \in Outcomes :
         ing' = IF ok THEN [ing EXCEPT !.pc = "insert",
                                       !.embedding = embedDocuments(ing.splits[ing.j])]
                ELSE catch(ing)
    /\ UNCHANGED <<variant, memory, h, calls, resp, stub, startedAfter, documents, site>>

\* await supabase.from('documents').insert([{ id, content, embedding }]): the
\* table takes the row, or reports an error and takes nothing.
InsertSplit ==
    /\ ing.pc = "insert"
    /\ \E ok \in Outcomes :
         LET row == [id |-> uuidv4(ing.issued), content |-> ing.splits[ing.j],
                     embedding |-> ing.embedding[1]]
         IN /\ documents' = IF ok THEN Append(documents, row) ELSE documents
            /\ ing' = afterInsert([ing EXCEPT !.issued = @ + 1,
                                              !.errors = IF ok THEN @ ELSE @ + 1], ok)
    /\ UNCHANGED <<variant, memory, h, calls, resp, stub, startedAfter, site>>

InitIngest ==
    /\ variant = "ingest"
    /\ memory = << >>
    /\ h = [r \in Reqs |-> Frame0]
    /\ calls = [r \in Reqs |-> << >>]
    /\ resp = [r \in Reqs |-> << >>]
    /\ stub = FreeStub
    /\ startedAfter = [r \in Reqs |-> {}]
    /\ ing = IngOff
    /\ documents = << >>
    /\ site \in [1..MaxPdfs -> PdfTexts]

NextIngest ==
    \/ ingestDocuments
    \/ CreateClients
    \/ FetchPdf
    \/ ParsePdf
    \/ SplitText
    \/ EmbedSplit
    \/ InsertSplit

SpecIngest == InitIngest /\ [][NextIngest]_vars

\* ==================================================== per-request-PDF chat
\* The handlers that fetch and index the PDF named in the request body:
\* "V5" is src/api/chat.js, "V6" is src/unnamed/part_002 (both serverless
\* functions, called for every method), "V7" is app.post('/api/chat') of
\* src/unnamed/part_001 lines 28-81 (called by express for POST only).
PdfVariants == {"V5", "V6", "V7"}
Serverless == {"V5", "V6"}
Methods == {"POST", "GET"}
PdfRequestUrls == {Undefined, "", "doc1"}
MethodNotAllowed == <<"Method not allowed">>
MissingQuestionOrPdfUrl == <<"Missing question or pdfUrl">>
FailedToFetchPdf == "Failed to fetch PDF"
InternalError == <<"An internal error occurred">>

\* The locals of one invocation of these handlers before the request has arrived.
PdfFrame0 == [pc |-> "idle", method |-> Undefined, question |-> Undefined, pdfUrl |-> Undefined]

\* A validation that would only look at the question.
RejectsPdfRequestQuestionOnly(question, pdfUrl) == Falsy(question)
\* if (!question || !pdfUrl)
RejectsPdfRequest(question, pdfUrl) == Falsy(question) \/ Falsy(pdfUrl)

\* The body of the 500 response: error.message || "...", or the fixed text.
PdfCatchBody(v, m) ==
    CASE v = "V5" -> IF m # "" THEN <<m>> ELSE GenericError
      [] v = "V6" -> IF m # "" THEN <<m>> ELSE InternalError
      [] OTHER -> GenericError

\* The answer of the 200 response, from the chain's result { text }:
\* result?.text || result?.output_text || result || "No answer returned" in the
\* serverless functions (a result with an empty text is itself the answer),
\* result.text in the express handler.
PdfAnswer(v, text) ==
    IF v \in Serverless /\ text = << >> THEN <<"{ text: '' }">> ELSE text

PdfDone(r) == h' = [h EXCEPT ![r] = [@ EXCEPT !.pc = "done"]]
PdfCatch(r, m) == Send(r, ErrorResponse(500, PdfCatchBody(variant, m))) /\ PdfDone(r)

\* One awaited call of the pipeline: it resolves and the handler goes on, or
\* it throws and the catch block answers.
Await(r, who, next) ==
    \E reply \in {Returned(<<"ok">>)} \cup {Thrown(m) : m \in ErrMsgs} :
        /\ Log(r, Call(who, reply, reply.val))
        /\ IF reply.ok
           THEN resp' = resp /\ h' = [h EXCEPT ![r] = [@ EXCEPT !.pc = next]]
           ELSE PdfCatch(r, reply.msg)

\* The request arrives: method check (serverless functions), body validation.
PdfReceive(r) ==
    /\ h[r].pc = "idle"
    /\ \A s \in Reqs : s < r => h[s].pc # "idle"
    /\ \E m \in (IF variant \in Serverless THEN Methods ELSE {"POST"}),
          q \in QuestionInputs, u \in PdfRequestUrls :
         LET arrived == [h[r] EXCEPT !.method = m, !.question = q, !.pdfUrl = u]
         IN IF m # "POST"
            THEN /\ Send(r, ErrorResponse(405, MethodNotAllowed))
                 /\ h' = [h EXCEPT ![r] = [arrived EXCEPT !.pc = "done"]]
            ELSE IF RejectsPdfRequest(q, u)
            THEN /\ Send(r, ErrorResponse(400, MissingQuestionOrPdfUrl))
                 /\ h' = [h EXCEPT ![r] = [arrived EXCEPT !.pc = "done"]]
            ELSE /\ resp' = resp
                 /\ h' = [h EXCEPT ![r] = [arrived EXCEPT !.pc = "fetchPdf"]]
    /\ UNCHANGED <<ingestion, variant, memory, calls, stub, startedAfter>>

\* await fetch(pdfUrl); if (!response.ok) throw new Error("Failed to fetch PDF")
\* in the serverless functions; await response.arrayBuffer().
PdfFetch(r) ==
    /\ h[r].pc = "fetchPdf"
    /\ \E reply \in {Returned(<<"ok">>), Returned(<< >>)} \cup {Thrown(m) : m \in ErrMsgs} :
         /\ Log(r, Call("PdfFetch", reply, reply.val))
         /\ IF ~reply.ok
            THEN PdfCatch(r, reply.msg)
            ELSE IF reply.val = << >> /\ variant \in Serverless
            THEN PdfCatch(r, FailedToFetchPdf)
            ELSE resp' = resp /\ h' = [h EXCEPT ![r] = [@ EXCEPT !.pc = "parsePdf"]]
    /\ UNCHANGED <<ingestion, variant, memory, stub, startedAfter>>

\* await pdf(pdfBuffer); in the express handler getDocument and the page loop.
PdfParse(r) ==
    /\ h[r].pc = "parsePdf"
    /\ Await(r, "PdfParser", "splitPdf")
    /\ UNCHANGED <<ingestion, variant, memory, stub, startedAfter>>

\* await textSplitter.createDocuments([rawText])
PdfSplit(r) ==
    /\ h[r].pc = "splitPdf"
    /\ Await(r, "TextSplitter", "embedPdf")
    /\ UNCHANGED <<ingestion, variant, memory, stub, startedAfter>>

\* await MemoryVectorStore.fromDocuments(splits, embeddings)
PdfEmbed(r) ==
    /\ h[r].pc = "embedPdf"
    /\ Await(r, "Embeddings", "chainRetrievePdf")
    /\ UNCHANGED <<ingestion, variant, memory, stub, startedAfter>>

\* chain.invoke({ query: question }), first half: the retriever embeds the query.
PdfChainRetrieve(r) ==
    /\ h[r].pc = "chainRetrievePdf"
    /\ Await(r, "Embeddings", "chainModelPdf")
    /\ UNCHANGED <<ingestion, variant, memory, stub, startedAfter>>

\* chain.invoke, second half: the model answers; res.status(200).json({ answer }).
PdfChainModel(r) ==
    /\ h[r].pc = "chainModelPdf"
    /\ \E reply \in LLMOutcomes :
         /\ Log(r, Call("LanguageModel", reply, reply.val))
         /\ IF reply.ok
            THEN Send(r, AnswerResponse(PdfAnswer(variant, reply.val))) /\ PdfDone(r)
            ELSE PdfCatch(r, reply.msg)
    /\ UNCHANGED <<ingestion, variant, memory, stub, startedAfter>>

InitPdfChat ==
    /\ variant \in PdfVariants
    /\ memory = << >>
    /\ h = [r \in Reqs |-> PdfFrame0]
    /\ calls = [r \in Reqs |-> << >>]
    /\ resp = [r \in Reqs |-> << >>]
    /\ stub = FreeStub
    /\ startedAfter = [r \in Reqs |-> {}]
    /\ ing = IngOff
    /\ documents = << >>
    /\ site = << >>

PdfStep(r) ==
    \/ PdfReceive(r)
    \/ PdfFetch(r)
    \/ PdfParse(r)
    \/ PdfSplit(r)
    \/ PdfEmbed(r)
    \/ PdfChainRetrieve(r)
    \/ PdfChainModel(r)

NextPdfChat == \E r \in Reqs : PdfStep(r)

SpecPdfChat == InitPdfChat /\ [][NextPdfChat]_vars

\* ============================================================ properties
\* Reading the call log and the responses.
Who(r) == [i \in 1..Len(calls[r]) |-> calls[r][i].who]
Called(r, who) == \E i \in 1..Len(calls[r]) : calls[r][i].who = who
TimesCalled(r, who) == Cardinality({i \in 1..Len(calls[r]) : calls[r][i].who = who})
SomeCallThrew(r) == \E i \in 1..Len(calls[r]) : ~calls[r][i].ok
Arrived(r) == h[r].pc # "idle"
Finished(r) == h[r].pc = "done"
ChatVariants == {"V1", "V2", "V3"}
\* The Retriever query made by the handler returned zero chunks.
ZeroChunks(r) == Len(calls[r]) >= 1 /\ calls[r][1] = [who |-> "Retriever", ok |-> TRUE, empty |-> TRUE]
\* The last call made was a web search that returned zero results.
ZeroResults(r) == \E i \in 1..Len(calls[r]) :
                     calls[r][i] = [who |-> "WebSearchClient", ok |-> TRUE, empty |-> TRUE]

\* ---- C1 ----
\* In V1 a request whose question is missing or the empty string is answered
\* 400 "Missing question" at once: it never waits on a collaborator, its call
\* log stays empty, and the step that receives it leaves the memory as it was.
C1_RejectedState ==
    \A r \in Reqs :
        (variant = "V1" /\ Arrived(r) /\ h[r].question \in {Undefined, ""}) =>
            /\ Finished(r)
            /\ resp[r] = <<ErrorResponse(400, MissingQuestion)>>
            /\ calls[r] = << >>
C1_RejectedStep ==
    \A r \in Reqs :
        (variant = "V1" /\ ~Arrived(r) /\ h'[r].pc # "idle" /\ h'[r].question \in {Undefined, ""}) =>
            /\ memory' = memory
            /\ calls' = calls
C1_MissingQuestionRejected == [](C1_RejectedState) /\ [][C1_RejectedStep]_vars
\* An empty-string question was rejected while the memory already held a turn.
C1_Witness ==
    \E r \in Reqs : /\ variant = "V1" /\ Finished(r) /\ h[r].question = ""
                    /\ resp[r] = <<ErrorResponse(400, MissingQuestion)>>
                    /\ memory # << >>

\* ---- C2 ----
\* In V1, V2 and V3, a request with a non-empty question and pdfUrl unset or
\* 'general_discussion' never calls the Retriever: its calls are one
\* WebSearchClient call, then at most one LanguageModel call.
C2_NoScopeNeverRetrieves ==
    \A r \in Reqs :
        (variant \in ChatVariants /\ Arrived(r) /\ Truthy(h[r].question)
           /\ h[r].pdfUrl \in {Undefined, "general_discussion"}) =>
            Who(r) \in {<< >>, <<"WebSearchClient">>, <<"WebSearchClient", "LanguageModel">>}

\* ---- C3 ----
\* In V1, when the handler's Retriever query returned one or more chunks, the
\* LanguageModel is invoked at most once, and once it has answered, the context
\* it was given contains the content of every chunk that query returned.
C3_ModelGetsEveryRetrievedChunk ==
    \A r \in Reqs :
        (variant = "V1" /\ DocumentScope(h[r].pdfUrl) /\ HasDocs(h[r].retrievedDocs)) =>
            /\ TimesCalled(r, "LanguageModel") <= 1
            /\ h[r].pc = "saveContext" =>
                 /\ TimesCalled(r, "LanguageModel") = 1
                 /\ \A i \in 1..Len(h[r].retrievedDocs) :
                        Contains(h[r].context, h[r].retrievedDocs[i])

C5_ZeroResultsFixedAnswer ==
    \A r \in Reqs :
        (variant \in ChatVariants /\ ZeroResults(r)) =>
            /\ ~Called(r, "LanguageModel")
            /\ calls[r][Len(calls[r])].who = "WebSearchClient"
            /\ Finished(r)
            /\ resp[r] = <<AnswerResponse(IF ZeroChunks(r) THEN NoAnswerDocsOrNet ELSE NoAnswerNet)>>
\* Zero chunks, then zero search results.
C5_Witness ==
    \E r \in Reqs : /\ variant = "V1" /\ ZeroChunks(r) /\ ZeroResults(r)
                    /\ resp[r] = <<AnswerResponse(NoAnswerDocsOrNet)>>

\* ---- C6 ----
\* In V1, V2 and V3, a request in which a collaborator threw ends with the one
\* response 500 { error: "An error occurred." }, whoever threw and whatever the
\* exception's message.
C6_OneGenericError ==
    \A r \in Reqs :
        (variant \in ChatVariants /\ SomeCallThrew(r)) =>
            /\ Finished(r)
            /\ resp[r] = <<ErrorResponse(500, GenericError)>>

\* ---- C7 ----
\* The memory changes only in the step in which a request on the document path,
\* whose LanguageModel call has returned, saves its turn: the step appends the
\* one turn (question, answer) of that request, whose 200 response carries that
\* answer.  Every step that ends a request otherwise (400, 500, the web-search
\* answers, the fixed no-answer message) leaves the memory as it was.
C7_SavingStep(r) ==
    /\ h[r].pc = "saveContext" /\ h'[r].pc = "done"
    /\ variant \in {"V1", "V2"} => DocumentScope(h[r].pdfUrl)
    /\ Who(r) = <<"Retriever", "Retriever", "LanguageModel">>
    /\ \A i \in 1..Len(calls[r]) : calls[r][i].ok
    /\ memory' = Append(memory, [question |-> h[r].question, answer |-> h[r].answer])
    /\ resp'[r] = <<AnswerResponse(h[r].answer)>>
C7_MemoryStep ==
    /\ memory' # memory => \E r \in Reqs : C7_SavingStep(r)
    /\ \A r \in Reqs : (h'[r].pc = "done" /\ h[r].pc \notin {"done", "saveContext"}) => memory' = memory
    /\ IsPrefix(memory, memory')
C7_MemoryOnlyAppendedByDocumentPath == [][C7_MemoryStep]_vars
\* Two requests have each saved a turn.
C7_Witness ==
    /\ Len(memory) = 2
    /\ \A r \in {1, 2} : Finished(r) /\ resp[r] = <<AnswerResponse(memory[r].answer)>>

\* ---- C8 ----
\* Original statement: against deterministic stubs, two requests with the same
\* (question, pdfUrl), the second arriving after the first was answered, get the
\* same answer text.
C8_IdenticalRequestsSameAnswer ==
    \A r1, r2 \in Reqs :
        (variant \in ChatVariants /\ r1 \in startedAfter[r2] /\ Finished(r2)
           /\ h[r1].question = h[r2].question /\ h[r1].pdfUrl = h[r2].pdfUrl
           /\ resp[r1][1].status = 200 /\ resp[r2][1].status = 200) =>
            resp[r1][1].body = resp[r2][1].body
\* Amended: on the web-search paths the two answers are identical.  On the
\* document path the second request's model call is given a history that holds
\* the first request's turn, so its answer is the same only if the model ignores
\* the history: a stub that repeats what it is given answers differently.
C8_IdenticalRequests ==
    \A r1, r2 \in Reqs :
        (variant \in ChatVariants /\ r1 \in startedAfter[r2]
           /\ h[r1].question = h[r2].question /\ h[r1].pdfUrl = h[r2].pdfUrl
           /\ resp[r1][1].status = 200) =>
            /\ (Called(r1, "WebSearchClient") /\ Finished(r2)) => resp[r2] = resp[r1]
            /\ (~Called(r1, "WebSearchClient") /\ h[r2].pc = "saveContext") =>
                 /\ Contains(h[r2].chat_history,
                             [question |-> h[r1].question, answer |-> resp[r1][1].body])
                 /\ h[r2].answer # resp[r1][1].body
\* The same document question was answered twice, one request after the other.
C8_Witness ==
    \E r1, r2 \in Reqs :
        /\ variant \in ChatVariants /\ r1 \in startedAfter[r2] /\ Finished(r2)
        /\ h[r1].question = h[r2].question /\ h[r1].pdfUrl = h[r2].pdfUrl
        /\ resp[r1][1].status = 200 /\ resp[r2][1].status = 200
        /\ ~Called(r1, "WebSearchClient") /\ ~Called(r2, "WebSearchClient")
        /\ Len(memory) = 2

\* ---- C9 ----
\* In V1 every request gets exactly one response, sent in the step that ends the
\* handler: 400 with an error text, 200 with an answer, or 500 with an error
\* text.  A handler that has not answered yet can always take its next step,
\* and every step moves it forward, so none is left without a response.
Rank(pc) ==
    CASE pc = "idle" -> 0
      [] pc \in {"retrieve", "searchGeneral", "embedQuery"} -> 1
      [] pc \in {"loadMemory", "searchFallback", "modelGeneral", "searchDocuments"} -> 2
      [] pc \in {"chainRetrieve", "modelFallback", "modelAgain", "llmCall"} -> 3
      [] pc = "chainModel" -> 4
      [] pc = "saveContext" -> 5
      [] OTHER -> 6
C9_ResponseState ==
    \A r \in Reqs :
        variant = "V1" =>
            /\ Len(resp[r]) = (IF Finished(r) THEN 1 ELSE 0)
            /\ Finished(r) =>
                 \/ resp[r][1].status = 400 /\ resp[r][1].field = "error"
                 \/ resp[r][1].status = 200 /\ resp[r][1].field = "answer"
                 \/ resp[r][1].status = 500 /\ resp[r][1].field = "error"
            /\ (Arrived(r) /\ ~Finished(r)) => ENABLED Step(r)
C9_ResponseStep ==
    \A r \in Reqs :
        variant = "V1" =>
            /\ h'[r] # h[r] => Rank(h'[r].pc) > Rank(h[r].pc)
            /\ resp'[r] # resp[r] => (~Finished(r) /\ h'[r].pc = "done")
C9_ExactlyOneResponse == [](C9_ResponseState) /\ [][C9_ResponseStep]_vars
\* V1 has answered one request 500 and another 200.
C9_Witness ==
    /\ variant = "V1"
    /\ \A r \in {1, 2} : Finished(r)
    /\ resp[1][1].status = 500 /\ resp[2][1].status = 200

\* ---- C10 ----
\* In V4 (POST /chat), once the vector store has reported an error for the
\* similarity search, the language model is not invoked and the request ends
\* with 500 { error: "Internal server error" }.
C10_VectorStoreErrorIs500 ==
    \A r \in Reqs :
        (variant = "V4" /\ \E i \in 1..Len(calls[r]) :
                              calls[r][i].who = "VectorStore" /\ ~calls[r][i].ok) =>
            /\ ~Called(r, "LanguageModel")
            /\ Finished(r) => resp[r] = <<ErrorResponse(500, InternalServerError)>>

\* ---- C11 ----
\* Document-path requests in flight together share the memory without any
\* synchronization.  A request reads the memory when it reaches its load and
\* saves when its model call has returned; neither step ever waits for another
\* request.  The history a request gives to the model is the memory as it was
\* at its load (a prefix of the memory since), so it lacks the turn of every
\* request that had not saved by then, earlier arrivals included; each save
\* puts its turn after all turns saved before it, whatever the arrival order.
InDocumentPath(r) == h[r].pc \in {"chainRetrieve", "chainModel", "saveContext"}
C11_SharedState ==
    \A r \in Reqs :
        variant \in ChatVariants =>
            /\ h[r].pc = "loadMemory" => ENABLED LoadMemory(r)
            /\ h[r].pc = "saveContext" => ENABLED SaveContext(r)
            /\ InDocumentPath(r) => IsPrefix(h[r].chat_history, memory)
C11_SharedStep ==
    \A r \in Reqs :
        variant \in ChatVariants =>
            /\ (h[r].pc = "loadMemory" /\ h'[r].pc = "chainRetrieve") =>
                   h'[r].chat_history = memory
            /\ (InDocumentPath(r) /\ InDocumentPath(r)') =>
                   h'[r].chat_history = h[r].chat_history
            /\ (h[r].pc = "saveContext" /\ h'[r].pc = "done") =>
                   /\ Len(memory') = Len(memory) + 1
                   /\ memory'[Len(memory')] = [question |-> h[r].question, answer |-> h[r].answer]
C11_UnsynchronizedHistory == [](C11_SharedState) /\ [][C11_SharedStep]_vars
\* Request 2 arrived after request 1 and has saved its turn first: its model
\* call was given a history without the turn of request 1, which is still
\* about to save a different answer behind it, from a history read before.
C11_Witness ==
    /\ variant \in ChatVariants
    /\ h[1].pc = "saveContext" /\ h[1].chat_history = << >>
    /\ Finished(2) /\ resp[2] # << >> /\ resp[2][1].status = 200
    /\ memory = <<[question |-> h[2].question, answer |-> resp[2][1].body]>>
    /\ h[1].answer # resp[2][1].body

\* ---- C12 ----
\* In V1, V2 and V3 nothing is retried within a request: a call that threw is
\* the last call of the request, a Retriever that threw is not followed by a
\* web search, and the WebSearchClient and the LanguageModel are each called
\* at most once.
C12_NoRetries ==
    \A r \in Reqs :
        variant \in ChatVariants =>
            /\ \A i \in 1..Len(calls[r]) : ~calls[r][i].ok => i = Len(calls[r])
            /\ (\E i \in 1..Len(calls[r]) : calls[r][i].who = "Retriever" /\ ~calls[r][i].ok) =>
                   ~Called(r, "WebSearchClient")
            /\ TimesCalled(r, "WebSearchClient") <= 1
            /\ TimesCalled(r, "LanguageModel") <= 1

\* ---- C13 ----
\* In ingestDocuments an insert that returns an error changes nothing in the
\* table and is followed by the next split of the same PDF, else by the next
\* PDF, else by the completion message; no step ever removes or changes a row.
\* The rows written by a run are, in order, the splits whose insert succeeded:
\* the contents of the chunks that the console reports as ingested.
Contents(rows) == [n \in 1..Len(rows) |-> rows[n].content]
\* The contents of the chunks a console reports as ingested: after the line of a
\* PDF, the k-th insert line is about the k-th split of that PDF.
RECURSIVE Ingested(_, _, _)
Ingested(con, url, k) ==
    IF con = << >> THEN << >>
    ELSE LET line == Head(con)
         IN IF Len(line) = 2 /\ line = ProcessingPdf(line[2])
            THEN Ingested(Tail(con), line[2], 0)
            ELSE IF line = InsertError
            THEN Ingested(Tail(con), url, k + 1)
            ELSE IF Len(line) = 2 /\ line = IngestedChunk(url)
            THEN <<createDocuments(cleanText(site[url]))[k + 1]>> \o Ingested(Tail(con), url, k + 1)
            ELSE Ingested(Tail(con), url, k)
C13_StoredState ==
    LET mine == Ingested(ing.console, 0, 0)
    IN /\ Len(mine) <= Len(documents)
       /\ SubSeq(Contents(documents), Len(documents) - Len(mine) + 1, Len(documents)) = mine
       /\ ~ing.rerun => Contents(documents) = mine
C13_InsertStep ==
    /\ IsPrefix(documents, documents')
    /\ (ing.pc = "insert" /\ ing' # ing /\ documents' = documents) =>
          /\ IsPrefix(Append(ing.console, InsertError), ing'.console)
          /\ IF ing.j < Len(ing.splits)
             THEN ing'.pc = "embed" /\ ing'.i = ing.i /\ ing'.j = ing.j + 1
             ELSE IF ing.i < MaxPdfs
             THEN ing'.pc = "fetch" /\ ing'.i = ing.i + 1
             ELSE ing'.pc = "ended"
    /\ (ing.pc = "insert" /\ ing'.pc = "ended") =>
          ing'.console[Len(ing'.console)] = IngestionComplete
C13_InsertErrorSkipsOneChunk == [](C13_StoredState) /\ [][C13_InsertStep]_vars
\* A run that went through to the completion message with two insert errors:
\* one after a stored chunk and before the next PDF, one before the next chunk
\* of its PDF; the two chunks whose insert succeeded are the rows.
C13_Witness ==
    /\ ing.pc = "ended" /\ ~ing.rerun
    /\ ing.console = <<ProcessingPdf(1), IngestedChunk(1), InsertError,
                       ProcessingPdf(2), InsertError, IngestedChunk(2), IngestionComplete>>
    /\ Len(documents) = 2

\* ---- C14 ----
\* Whatever text is extracted from a PDF, text that holds the character U+0000
\* included, no row inserted by ingestDocuments holds a null character in its
\* content.
C14_NoNullCharacterStored ==
    \A n \in 1..Len(documents) :
        \A k \in 1..Len(documents[n].content) : documents[n].content[k] # Null

\* ---- C15 ----
\* Ingestion only adds rows.  The table changes only in an insert step, which
\* appends one row whose identifier no stored row has, whose content is the
\* split at hand and whose embedding is the one computed for that split in the
\* step before; stored rows are never changed or removed.  After a second run
\* over the same PDFs, no insert having failed in either run, the table holds
\* the chunks of the PDFs twice over, the two copies of every chunk under two
\* different identifiers.
RECURSIVE AllSplits(_)
AllSplits(i) ==
    IF i = 0 THEN << >> ELSE AllSplits(i - 1) \o createDocuments(cleanText(site[i]))
C15_RowsState ==
    /\ \A m, n \in 1..Len(documents) : m # n => documents[m].id # documents[n].id
    /\ \A n \in 1..Len(documents) :
          documents[n].embedding = embedDocuments(documents[n].content)[1]
    /\ ing.pc = "insert" => ing.embedding = embedDocuments(ing.splits[ing.j])
    /\ (ing.pc = "ended" /\ ing.rerun /\ ing.errors = 0) =>
          LET all == AllSplits(MaxPdfs)
          IN /\ Contents(documents) = all \o all
             /\ \A n \in 1..Len(all) : documents[n].id # documents[n + Len(all)].id
C15_RowsStep ==
    documents' # documents =>
        /\ ing.pc = "insert"
        /\ \E row \in {documents'[Len(documents')]} :
              /\ documents' = Append(documents, row)
              /\ \A n \in 1..Len(documents) : documents[n].id # row.id
              /\ row.content = ing.splits[ing.j]
              /\ row.embedding = ing.embedding[1]
C15_OnlyAddsRows == [](C15_RowsState) /\ [][C15_RowsStep]_vars
\* Two faultless runs over PDFs that hold chunks: every chunk is stored twice.
C15_Witness ==
    /\ ing.pc = "ended" /\ ing.rerun /\ ing.errors = 0
    /\ Len(AllSplits(MaxPdfs)) >= 2
    /\ Len(documents) = 2 * Len(AllSplits(MaxPdfs))
    /\ documents[1].content = documents[1 + Len(AllSplits(MaxPdfs))].content
    /\ documents[1].id # documents[1 + Len(AllSplits(MaxPdfs))].id

\* ---- C17 ----
\* An exception thrown while the clients are made or a document is fetched,
\* parsed, split or embedded ends the run in that very step: the catch block
\* logs the error and ingestDocuments returns.  The rows inserted before stay,
\* the completion message is not logged, and nothing more of the run happens
\* (no later split, no later PDF): only a new run can follow.
ExceptionLogged == \E n \in 1..Len(ing.console) : ing.console[n] = IngestionError
C17_EndedState ==
    ExceptionLogged =>
        /\ ing.pc = "ended"
        /\ ing.console[Len(ing.console)] = IngestionError
        /\ \A n \in 1..Len(ing.console) : ing.console[n] # IngestionComplete
        /\ ~ENABLED (CreateClients \/ FetchPdf \/ ParsePdf \/ SplitText \/ EmbedSplit \/ InsertSplit)
C17_ExceptionStep ==
    (ing.pc \in {"createClient", "fetch", "parse", "split", "embed"}
       /\ ing'.errors > ing.errors) =>
        /\ ing'.pc = "ended"
        /\ ing'.console[Len(ing'.console)] = IngestionError
        /\ documents' = documents
C17_ExceptionEndsRun == [](C17_EndedState) /\ [][C17_ExceptionStep]_vars
\* The embedding of the second chunk of the first PDF threw: the first chunk is
\* stored, the second PDF was never fetched, the run is over.
C17_Witness ==
    /\ ing.pc = "ended" /\ ~ing.rerun
    /\ ing.console = <<ProcessingPdf(1), IngestedChunk(1), IngestionError>>
    /\ Len(createDocuments(cleanText(site[1]))) = 2
    /\ site[2] # << >>
    /\ Len(documents) = 1

\* ---- C16 ----
\* No turn is lost, whatever the interleaving: at any moment the memory holds
\* one turn for each request that was answered on the document path (its model
\* call having returned), and no other turn; the turn pairs that request's
\* question with the answer sent to that request.  So once N such requests
\* have all been answered, the memory holds exactly N turns, one per request.
SavedTurn(r) ==
    /\ Finished(r)
    /\ Who(r) = <<"Retriever", "Retriever", "LanguageModel">>
    /\ \A i \in 1..Len(calls[r]) : calls[r][i].ok
TurnOf(r) == [question |-> h[r].question, answer |-> resp[r][1].body]
C16_NoLostUpdates ==
    variant \in ChatVariants =>
        LET savers == {r \in Reqs : SavedTurn(r)}
            turns == {memory[k] : k \in 1..Len(memory)} \cup {TurnOf(r) : r \in savers}
        IN /\ Len(memory) = Cardinality(savers)
           /\ \A r \in savers : resp[r] = <<AnswerResponse(resp[r][1].body)>>
           /\ \A t \in turns :
                 Cardinality({k \in 1..Len(memory) : memory[k] = t})
                   = Cardinality({r \in savers : TurnOf(r) = t})
\* Two requests were in flight together, each with the history from before the
\* other's save, and got different answers; both turns are in the memory, the
\* later arrival's first.
C16_Witness ==
    /\ variant \in ChatVariants
    /\ SavedTurn(1) /\ SavedTurn(2)
    /\ TurnOf(1) # TurnOf(2)
    /\ memory = <<TurnOf(2), TurnOf(1)>>

\* ---- C18 ----
\* In the handlers that take the PDF from the request, validation comes before
\* every external call.  A request of another method than POST to a serverless
\* function is answered 405, and a POST whose question or pdfUrl is missing or
\* empty is answered 400, both at once and with no call made (no PDF fetch, no
\* embedding, no model call).  Every request that made a call, and every
\* request answered 200, is a POST with a question and a pdfUrl.
C18_ValidationFirst ==
    \A r \in Reqs :
        (variant \in PdfVariants /\ Arrived(r)) =>
            /\ h[r].method # "POST" =>
                  /\ variant \in Serverless
                  /\ Finished(r)
                  /\ resp[r] = <<ErrorResponse(405, MethodNotAllowed)>>
                  /\ calls[r] = << >>
            /\ (h[r].method = "POST" /\ (Falsy(h[r].question) \/ Falsy(h[r].pdfUrl))) =>
                  /\ Finished(r)
                  /\ resp[r] = <<ErrorResponse(400, MissingQuestionOrPdfUrl)>>
                  /\ calls[r] = << >>
            /\ (calls[r] # << >> \/ (resp[r] # << >> /\ resp[r][1].status = 200)) =>
                  /\ h[r].method = "POST"
                  /\ Truthy(h[r].question) /\ Truthy(h[r].pdfUrl)
                  /\ calls[r][1].who = "PdfFetch"
\* A question without pdfUrl was answered 400 with no call made, by a handler
\* that has answered another request 200 after fetching its PDF.
C18_Witness ==
    /\ variant \in PdfVariants
    /\ \E r1, r2 \in Reqs :
          /\ Finished(r1) /\ h[r1].method = "POST"
          /\ Truthy(h[r1].question) /\ h[r1].pdfUrl = Undefined
          /\ resp[r1] = <<ErrorResponse(400, MissingQuestionOrPdfUrl)>> /\ calls[r1] = << >>
          /\ Finished(r2) /\ resp[r2][1].status = 200 /\ Called(r2, "LanguageModel")

=============================================================================
